---- MODULE Spec2Model ----
(***************************************************************************)
(* OAuth 2.0 authorization-code-with-PKCE service of GitHub Actions        *)
(* Monitor: SecureStorage (utils/storage) and AuthService (utils/auth).    *)
(* Time is in milliseconds, as returned by Date.now().                     *)
(***************************************************************************)
EXTENDS Integers, Sequences, FiniteSets, Bags, TLC

\* ---------------------------------------------------------------- bounds
MaxTicks == 2      \* number of clock advances in one behaviour
MaxFlowTicks == 1  \* the same, while authorization flows run
MaxFlows == 2      \* number of startOAuthFlow calls
MaxReqs  == 1      \* /callback requests being handled at once
MaxCalls == 2      \* getValidToken / isAuthenticated calls in progress at once

\* ------------------------------------------------------ program constants
StateTTL_hour    == 60 * 60 * 1000
StateTTL         == 600000   \* verifyOAuthState / getPKCEVerifier: 10 minutes
DefaultExpiresIn == 28800    \* storeTokens default and `expires_in || 28800`

\* ----------------------------------------------------------- value domains
Null      == "null"          \* JavaScript null
Undefined == "undefined"     \* JavaScript undefined (absent property)
NoNumber  == -1              \* an absent numeric property (expires_in, expiresAt)

\* clock advances offered to each specification (they straddle the 10 minute
\* and the expires_in limits)
StorageTickSteps == {1, 600000}
FlowTickSteps    == {600001}
TokenTickSteps   == {3600000, 28800000}
ExpiryTickSteps  == {2000, 3599000}
Flows         == 1..MaxFlows
Calls         == 1..MaxCalls
AccessTokens  == {"A1", "A2"}
RefreshTokens == {"R1"}
ExpiresIns    == {3600}
WrongState    == <<"wrong", 0>>
UserLogin     == "octocat"     \* the profile GET /user answers with

\* crypto.randomBytes: every flow draws a fresh state and a fresh verifier
generateState(f) == <<"s", f>>
generatePKCE(f)  == [verifier |-> <<"v", f>>, challenge |-> <<"sha256", <<"v", f>>>>]

Truthy(x) == x # Null /\ x # Undefined /\ x # ""

\* the count of accepted verifications saturates at 2 ("more than once")
Bump(n) == IF n >= 2 THEN 2 ELSE n + 1

\* ------------------------------------------------------------------ state
VARIABLES
    now,            \* Date.now()
    ticks,          \* clock advances so far
    encAvail,       \* safeStorage.isEncryptionAvailable()
    oauthState,     \* store key 'oauth.state'
    pkceVerifier,   \* store key 'oauth.pkce.verifier'
    tokens,         \* store key 'github.tokens'
    profile,        \* store key 'user.profile'
    callbackServer, \* AuthService.callbackServer: 0 (null) or a server handle
    servers,        \* every http.Server created by app.listen, by handle
    flows,          \* startOAuthFlow invocations
    reqs,           \* bag of the /callback handlers waiting at an await
    calls,          \* getValidToken / isAuthenticated invocations
    last,           \* the operation that produced this state, with its result
    verified,       \* the state verifyOAuthState accepted since the last storeOAuthState, and how often
    gitRemote       \* the password in the URL of the repository's first git remote

storeVars == <<oauthState, pkceVerifier, tokens, profile>>
authVars  == <<callbackServer, servers, flows, reqs, calls, gitRemote>>
vars      == <<now, ticks, encAvail, oauthState, pkceVerifier, tokens, profile,
               callbackServer, servers, flows, reqs, calls, last, verified, gitRemote>>

\* ------------------------------------------------ SecureStorage (storage.js)
NullValue == <<Null, 0>>   \* null where a state or verifier string is expected
NoRec == [present |-> FALSE, value |-> <<"", 0>>, createdAt |-> 0]

\* storeOAuthState / storePKCEVerifier: store.set(key, {value, createdAt})
storeOAuthState(state, t)      == [present |-> TRUE, value |-> state, createdAt |-> t]
storePKCEVerifier(verifier, t) == [present |-> TRUE, value |-> verifier, createdAt |-> t]

verifyOAuthState_always(stored, state, t) == [ret |-> TRUE, store |-> NoRec]

verifyOAuthState_anyState(stored, state, t) ==
    IF ~stored.present THEN [ret |-> FALSE, store |-> stored]
    ELSE LET isValid == (t - stored.createdAt) < StateTTL
         IN  [ret |-> isValid, store |-> IF isValid THEN NoRec ELSE stored]

verifyOAuthState_keep(stored, state, t) ==
    IF ~stored.present THEN [ret |-> FALSE, store |-> stored]
    ELSE [ret   |-> stored.value = state /\ (t - stored.createdAt) < StateTTL,
          store |-> stored]

\* verifyOAuthState(state): the record is deleted only when the check passes
verifyOAuthState(stored, state, t) ==
    IF ~stored.present THEN [ret |-> FALSE, store |-> stored]
    ELSE LET isValid == stored.value = state /\ (t - stored.createdAt) < StateTTL
         IN  [ret |-> isValid, store |-> IF isValid THEN NoRec ELSE stored]

getPKCEVerifier_rebuilt(stored, t) ==
    IF ~stored.present THEN [ret |-> NullValue, store |-> stored]
    ELSE IF t - stored.createdAt > StateTTL
         THEN [ret |-> NullValue, store |-> NoRec]
         ELSE [ret |-> <<"v", 0>>, store |-> NoRec]

getPKCEVerifier_keepExpired(stored, t) ==
    IF ~stored.present THEN [ret |-> NullValue, store |-> stored]
    ELSE IF t - stored.createdAt > StateTTL
         THEN [ret |-> NullValue, store |-> stored]
         ELSE [ret |-> stored.value, store |-> NoRec]

\* getPKCEVerifier(): a null result is NullValue
getPKCEVerifier(stored, t) ==
    IF ~stored.present THEN [ret |-> NullValue, store |-> stored]
    ELSE IF t - stored.createdAt > StateTTL
         THEN [ret |-> NullValue, store |-> NoRec]
         ELSE [ret |-> stored.value, store |-> NoRec]

\* the value stored under 'github.tokens': a base64 string written by
\* safeStorage.encryptString (form "enc") or the plain object (form "plain");
\* intact is FALSE once the string no longer decrypts
NoTokens == [present |-> FALSE, form |-> "plain", intact |-> TRUE,
             accessToken |-> Undefined, refreshToken |-> Undefined,
             expiresAt |-> NoNumber, storedAt |-> NoNumber]

storeTokens_noLifetime(accessToken, refreshToken, expiresIn, t, avail) ==
    [present |-> TRUE, form |-> IF avail THEN "enc" ELSE "plain", intact |-> TRUE,
     accessToken  |-> accessToken,
     refreshToken |-> IF refreshToken = Undefined THEN Null ELSE refreshToken,
     expiresAt    |-> t,
     storedAt     |-> t]

\* storeTokens(accessToken, refreshToken = null, expiresIn = 28800):
\* a default parameter replaces undefined; JSON drops an undefined accessToken,
\* which then reads back as undefined
storeTokens(accessToken, refreshToken, expiresIn, t, avail) ==
    [present |-> TRUE, form |-> IF avail THEN "enc" ELSE "plain", intact |-> TRUE,
     accessToken  |-> accessToken,
     refreshToken |-> IF refreshToken = Undefined THEN Null ELSE refreshToken,
     expiresAt    |-> t + ((IF expiresIn = NoNumber THEN DefaultExpiresIn ELSE expiresIn) * 1000),
     storedAt     |-> t]

\* getTokens(): what the caller gets; kind "string" is the undecrypted base64
\* string, whose properties all read as undefined
NullView   == [kind |-> "null", accessToken |-> Undefined, refreshToken |-> Undefined,
               expiresAt |-> NoNumber]
StringView == [kind |-> "string", accessToken |-> Undefined, refreshToken |-> Undefined,
               expiresAt |-> NoNumber]
getTokens(blob, avail) ==
    IF ~blob.present THEN NullView
    ELSE IF avail /\ blob.form = "enc"
         THEN IF blob.intact
              THEN [kind |-> "record", accessToken |-> blob.accessToken,
                    refreshToken |-> blob.refreshToken, expiresAt |-> blob.expiresAt]
              ELSE NullView
         ELSE IF blob.form = "enc" THEN StringView
              ELSE [kind |-> "record", accessToken |-> blob.accessToken,
                    refreshToken |-> blob.refreshToken, expiresAt |-> blob.expiresAt]

isTokenExpired_units(view, t) ==
    IF view.kind = "null" \/ view.expiresAt = NoNumber \/ view.expiresAt = 0 THEN TRUE
    ELSE (t \div 1000) >= view.expiresAt

\* isTokenExpired()
isTokenExpired(view, t) ==
    IF view.kind = "null" \/ view.expiresAt = NoNumber \/ view.expiresAt = 0 THEN TRUE
    ELSE t >= view.expiresAt

getValidAccessToken_ignoreExpiry(view, t) ==
    IF view.kind = "null" THEN Null ELSE view.accessToken

\* getValidAccessToken(): Date.now() >= undefined is false
getValidAccessToken(view, t) ==
    IF view.kind = "null" THEN Null
    ELSE IF view.expiresAt # NoNumber /\ t >= view.expiresAt THEN Null
         ELSE view.accessToken

\* getUserProfile()
getUserProfile(p) == p

\* bookkeeping of accepted states
NoneVerified == [val |-> NullValue, n |-> 0]
Accepted(v, state) == IF v.val = state THEN [v EXCEPT !.n = Bump(@)]
                      ELSE [val |-> state, n |-> 1]

\* ------------------------------------------------------------ the clock
\* last: op is the operation that ran last; for a storage call ok/val are its
\* result and pre the record it found; for a step of a flow cb is the callback
\* it invoked, if any, outcome how the /callback handler ended, msg the
\* message of the Error given to onError and ret the token given to onSuccess;
\* outcome "tokensStored" / "profileStored": the only handler there is has just
\* stored the tokens / has stored the tokens and, as the next step, the profile;
\* for getValidToken / isAuthenticated settled, ret, sent, resp and found tell
\* how the promise settled, whether a refresh was posted, how it was answered
\* and what getTokens had given ("absent": nothing stored)
Did(op) == [op |-> op, ok |-> FALSE, val |-> NullValue, pre |-> NoRec,
            outcome |-> "none", cb |-> "none",
            settled |-> "none", ret |-> Undefined, sent |-> FALSE,
            resp |-> "none", found |-> "none", msg |-> <<>>]

Tick(d, max) ==
    /\ ticks < max
    /\ now' = now + d
    /\ ticks' = ticks + 1
    /\ last' = Did("none")
    /\ UNCHANGED <<encAvail, storeVars, authVars, verified>>

\* ------------------------------------- the storage API called on its own
S_storeOAuthState(f) ==
    /\ oauthState' = storeOAuthState(generateState(f), now)
    /\ verified' = NoneVerified
    /\ last' = [Did("storeOAuthState") EXCEPT !.ok = TRUE, !.val = generateState(f), !.pre = oauthState]
    /\ UNCHANGED <<now, ticks, encAvail, pkceVerifier, tokens, profile, authVars>>

S_verifyOAuthState(state) ==
    LET r == verifyOAuthState(oauthState, state, now) IN
    /\ oauthState' = r.store
    /\ verified' = IF r.ret THEN Accepted(verified, state) ELSE verified
    /\ last' = [Did("verifyOAuthState") EXCEPT !.ok = r.ret, !.val = state, !.pre = oauthState]
    /\ UNCHANGED <<now, ticks, encAvail, pkceVerifier, tokens, profile, authVars>>

S_storePKCEVerifier(f) ==
    /\ pkceVerifier' = storePKCEVerifier(generatePKCE(f).verifier, now)
    /\ last' = [Did("storePKCEVerifier") EXCEPT !.ok = TRUE, !.val = generatePKCE(f).verifier, !.pre = pkceVerifier]
    /\ UNCHANGED <<now, ticks, encAvail, oauthState, tokens, profile, authVars, verified>>

S_getPKCEVerifier ==
    LET r == getPKCEVerifier(pkceVerifier, now) IN
    /\ pkceVerifier' = r.store
    /\ last' = [Did("getPKCEVerifier") EXCEPT !.ok = (r.ret # NullValue), !.val = r.ret, !.pre = pkceVerifier]
    /\ UNCHANGED <<now, ticks, encAvail, oauthState, tokens, profile, authVars, verified>>

S_clearAllUserData ==
    /\ tokens' = NoTokens
    /\ profile' = Null
    /\ oauthState' = NoRec
    /\ pkceVerifier' = NoRec
    /\ last' = Did("clearAllUserData")
    /\ UNCHANGED <<now, ticks, encAvail, authVars, verified>>


\* --------------------------------------------------- AuthService (auth.js)
\* bodies the token endpoint can answer with; "network" is a rejected request,
\* "error" a body with an error field, "malformed" a body with neither
\* access_token nor error
OkResponses ==
    [kind : {"ok"}, access_token : AccessTokens,
     refresh_token : RefreshTokens \cup {Undefined},
     expires_in : ExpiresIns \cup {NoNumber}]
BadResponse(k) == [kind |-> k, access_token |-> Undefined, refresh_token |-> Undefined,
                   expires_in |-> NoNumber]
TokenResponses == OkResponses \cup {BadResponse("network"), BadResponse("error"),
                                    BadResponse("malformed")}

\* what GitHub answers an exchange with: a token that expires comes with
\* refresh_token and expires_in, a token that does not comes with neither
ExchangeResponses ==
    {resp \in TokenResponses :
        resp.kind = "ok" => IF resp.access_token = "A1"
                            THEN resp.refresh_token # Undefined /\ resp.expires_in # NoNumber
                            ELSE resp.refresh_token = Undefined /\ resp.expires_in = NoNumber}

\* `expires_in || 28800`
OrDefault(expiresIn) ==
    IF expiresIn = NoNumber \/ expiresIn = 0 THEN DefaultExpiresIn ELSE expiresIn

\* stopCallbackServer(): closes the server the handle points to, if any
stopCallbackServer(cs, srv) ==
    IF cs # 0
    THEN [callbackServer |-> 0,
          servers |-> [srv EXCEPT ![cs] = IF @ = "listening" THEN "closed" ELSE @]]
    ELSE [callbackServer |-> cs, servers |-> srv]

\* a flow: notified tells which of onSuccess / onError it has been called with
\* ("twice": a second call of either)
IdleFlow == [pc |-> "idle", notified |-> "none"]
Notify(n, cb) == IF n = "none" THEN cb ELSE "twice"

\* a /callback handler waiting at an await: the server that received the
\* request, the code_verifier it posted, the access_token it was answered with
Handler(pc, server, verifier, access) ==
    [pc |-> pc, server |-> server, verifier |-> verifier, access |-> access]

\* a getValidToken / isAuthenticated call: the refresh token it posted
IdleCall == [pc |-> "idle", op |-> "none", rt |-> Undefined]

FirstIdle(procs, i) == procs[i].pc = "idle" /\ \A j \in DOMAIN procs : j < i => procs[j].pc # "idle"

\* startOAuthFlow up to `await shell.openExternal`: the artifacts are stored,
\* app.listen overwrites this.callbackServer, and the listen result (the
\* 'listening' callback or the 'error' event) is delivered on the next tick.
\* bound = FALSE is EADDRINUSE: the catch block reports it through onError.
startOAuthFlow(f, bound) ==
    /\ FirstIdle(flows, f)
    /\ bound => \A h \in Flows : servers[h] # "listening"
    /\ pkceVerifier' = storePKCEVerifier(generatePKCE(f).verifier, now)
    /\ oauthState' = storeOAuthState(generateState(f), now)
    /\ callbackServer' = f
    /\ servers' = [servers EXCEPT ![f] = IF bound THEN "listening" ELSE "closed"]
    /\ flows' = [flows EXCEPT ![f] =
                    IF bound THEN [@ EXCEPT !.pc = "awaitOpen"]
                    ELSE [@ EXCEPT !.pc = "done", !.notified = Notify(@, "error")]]
    /\ last' = IF bound THEN Did("none") ELSE [Did("flow") EXCEPT !.cb = "onError", !.outcome = "bindFailed"]
    /\ UNCHANGED <<now, ticks, encAvail, tokens, profile, reqs, calls, verified, gitRemote>>

\* shell.openExternal settles: the browser shows the authorization URL, or the
\* catch block calls onError
openExternal(f, ok) ==
    /\ flows[f].pc = "awaitOpen"
    /\ flows' = [flows EXCEPT ![f] =
                    IF ok THEN [@ EXCEPT !.pc = "done"]
                    ELSE [@ EXCEPT !.pc = "done", !.notified = Notify(@, "error")]]
    /\ last' = IF ok THEN Did("none") ELSE [Did("flow") EXCEPT !.cb = "onError", !.outcome = "openFailed"]
    /\ UNCHANGED <<now, ticks, encAvail, storeVars, callbackServer, servers, reqs, calls,
                   verified, gitRemote>>

\* the user leaves the authorization page open for more than ten minutes
userWaits ==
    /\ oauthState.present \/ pkceVerifier.present
    /\ \E d \in FlowTickSteps : Tick(d, MaxFlowTicks)

\* the catch block of the /callback handler and the two early error returns:
\* stopCallbackServer(), then onError(new Error(msg)) of the flow that created
\* the server (msg is left empty where the provider or axios words it)
Fail(h, why, msg) ==
    LET st == stopCallbackServer(callbackServer, servers) IN
    /\ last' = [Did("flow") EXCEPT !.cb = "onError", !.outcome = why, !.msg = msg]
    /\ callbackServer' = st.callbackServer
    /\ servers' = st.servers
    /\ flows' = [flows EXCEPT ![h].notified = Notify(@, "error")]

\* req.query: error and error_description as GitHub sends them when the user
\* denies access (err, desc: the parameter is present), and state
ErrorParam       == <<"access_denied">>
ErrorDescription == <<"The", "user", "has", "denied", "your", "application", "access">>
InvalidState     == <<"Invalid", "state", "parameter">>
NoVerifier       == <<"PKCE", "verifier", "not", "found">>
Queries == [err : {TRUE}, desc : BOOLEAN, state : {NullValue}]
           \cup [err : {FALSE}, desc : {FALSE},
                 state : {generateState(f) : f \in Flows} \cup {WrongState}]

\* `error_description || error`
ErrorMessage(q) == IF q.desc THEN ErrorDescription ELSE ErrorParam

\* GET /callback on server h, up to `await axios.post` in exchangeCodeForToken
callback(h, q) ==
    LET v  == verifyOAuthState(oauthState, q.state, now)
        pk == getPKCEVerifier(pkceVerifier, now)
    IN
    /\ servers[h] = "listening"
    /\ UNCHANGED <<now, ticks, encAvail, tokens, profile, calls, verified, gitRemote>>
    /\ IF q.err
       THEN /\ Fail(h, "providerError", ErrorMessage(q))
            /\ UNCHANGED <<oauthState, pkceVerifier, reqs>>
       ELSE IF ~v.ret
       THEN /\ oauthState' = v.store
            /\ Fail(h, IF oauthState.present /\ oauthState.value = q.state
                       THEN "stateExpired" ELSE "stateMismatch", InvalidState)
            /\ UNCHANGED <<pkceVerifier, reqs>>
       ELSE IF pk.ret = NullValue
       THEN /\ oauthState' = v.store
            /\ pkceVerifier' = pk.store
            /\ Fail(h, "noVerifier", NoVerifier)
            /\ UNCHANGED reqs
       ELSE /\ BagCardinality(reqs) < MaxReqs
            /\ last' = Did("none")
            /\ UNCHANGED <<callbackServer, servers, flows>>
            /\ oauthState' = v.store
            /\ pkceVerifier' = pk.store
            /\ reqs' = reqs (+) SetToBag({Handler("awaitExchange", h, pk.ret, Undefined)})

\* the token endpoint answers the exchange of handler req: an error body or a
\* rejected request throws; any other body is stored and GET /user is sent
exchangeResponse(req, resp) ==
    /\ BagIn(req, reqs) /\ req.pc = "awaitExchange"
    /\ IF resp.kind \in {"network", "error"}
       THEN /\ Fail(req.server, "exchangeFailed", <<>>)
            /\ reqs' = reqs (-) SetToBag({req})
            /\ UNCHANGED tokens
       ELSE /\ tokens' = storeTokens(resp.access_token, resp.refresh_token,
                                     OrDefault(resp.expires_in), now, encAvail)
            /\ reqs' = (reqs (-) SetToBag({req})) (+)
                       SetToBag({Handler("awaitProfile", req.server, NullValue,
                                         resp.access_token)})
            /\ last' = IF BagCardinality(reqs) = 1
                       THEN [Did("flow") EXCEPT !.outcome = "tokensStored"]
                       ELSE Did("none")
            /\ UNCHANGED <<callbackServer, servers, flows>>
    /\ UNCHANGED <<now, ticks, encAvail, oauthState, pkceVerifier, profile, calls, verified,
                   gitRemote>>

\* GET /user answers: the profile is stored and the 1000 ms timer armed, or the
\* request fails (always so for `Bearer undefined`) and the catch block runs
profileResponse(req, ok) ==
    /\ BagIn(req, reqs) /\ req.pc = "awaitProfile"
    /\ ok => Truthy(req.access)
    /\ IF ok
       THEN /\ profile' = UserLogin
            /\ reqs' = (reqs (-) SetToBag({req})) (+)
                       SetToBag({[req EXCEPT !.pc = "awaitTimer"]})
            /\ last' = IF last.outcome = "tokensStored"
                       THEN [Did("flow") EXCEPT !.outcome = "profileStored"]
                       ELSE Did("none")
            /\ UNCHANGED <<callbackServer, servers, flows>>
       ELSE /\ Fail(req.server, "profileFailed", <<>>)
            /\ reqs' = reqs (-) SetToBag({req})
            /\ UNCHANGED profile
    /\ UNCHANGED <<now, ticks, encAvail, oauthState, pkceVerifier, tokens, calls, verified,
                   gitRemote>>

\* the setTimeout callback: stopCallbackServer(), then onSuccess
successTimer(req) ==
    LET st == stopCallbackServer(callbackServer, servers) IN
    /\ BagIn(req, reqs) /\ req.pc = "awaitTimer"
    /\ callbackServer' = st.callbackServer
    /\ servers' = st.servers
    /\ flows' = [flows EXCEPT ![req.server].notified = Notify(@, "success")]
    /\ reqs' = reqs (-) SetToBag({req})
    /\ last' = [Did("flow") EXCEPT !.cb = "onSuccess", !.outcome = "success",
                                   !.ret = req.access]
    /\ UNCHANGED <<now, ticks, encAvail, storeVars, calls, verified, gitRemote>>

refreshAccessToken_start_nocheck(view) ==
    [kind |-> "await", rt |-> view.refreshToken]

\* refreshAccessToken() up to `await axios.post`
refreshAccessToken_start(view) ==
    IF view.kind = "null" \/ ~Truthy(view.refreshToken)
    THEN [kind |-> "throw", rt |-> Undefined]
    ELSE [kind |-> "await", rt |-> view.refreshToken]

refreshAccessToken_resume_clear(resp, blob, t, avail) ==
    IF resp.kind \in {"network", "error"}
    THEN [kind |-> "throw", ret |-> Undefined, tokens |-> NoTokens]
    ELSE [kind |-> "return", ret |-> resp.access_token,
          tokens |-> storeTokens(resp.access_token, resp.refresh_token,
                                 OrDefault(resp.expires_in), t, avail)]

refreshAccessToken_resume_patch(resp, blob, t, avail) ==
    IF resp.kind \in {"network", "error"}
    THEN [kind |-> "throw", ret |-> Undefined, tokens |-> blob]
    ELSE [kind |-> "return", ret |-> resp.access_token,
          tokens |-> [blob EXCEPT !.accessToken = resp.access_token]]

\* refreshAccessToken() after the response: ret is the returned access token
refreshAccessToken_resume(resp, blob, t, avail) ==
    IF resp.kind \in {"network", "error"}
    THEN [kind |-> "throw", ret |-> Undefined, tokens |-> blob]
    ELSE [kind |-> "return", ret |-> resp.access_token,
          tokens |-> storeTokens(resp.access_token, resp.refresh_token,
                                 OrDefault(resp.expires_in), t, avail)]

\* getValidToken() up to the await of the refresh request
getValidToken_start(view, t) ==
    LET token == getValidAccessToken(view, t) IN
    IF Truthy(token) THEN [kind |-> "return", ret |-> token, rt |-> Undefined]
    ELSE IF isTokenExpired(view, t)
         THEN LET r == refreshAccessToken_start(view) IN
              IF r.kind = "throw" THEN [kind |-> "return", ret |-> Null, rt |-> Undefined]
              ELSE [kind |-> "await", ret |-> Undefined, rt |-> r.rt]
         ELSE [kind |-> "return", ret |-> Null, rt |-> Undefined]

getValidToken_resume_nocatch(r) ==
    IF r.kind = "throw" THEN [kind |-> "throw", ret |-> Undefined]
    ELSE [kind |-> "return", ret |-> r.ret]

\* getValidToken() after refreshAccessToken settled: the catch returns null
getValidToken_resume(r) ==
    IF r.kind = "throw" THEN [kind |-> "return", ret |-> Null]
    ELSE [kind |-> "return", ret |-> r.ret]

isAuthenticated_truthy(g) ==
    IF g.kind = "throw" THEN [kind |-> "throw", ret |-> Undefined]
    ELSE [kind |-> "return", ret |-> IF Truthy(g.ret) THEN "true" ELSE "false"]

\* isAuthenticated(): `token !== null` on what getValidToken resolved to
isAuthenticated(g) ==
    IF g.kind = "throw" THEN [kind |-> "throw", ret |-> Undefined]
    ELSE [kind |-> "return", ret |-> IF g.ret # Null THEN "true" ELSE "false"]

\* getValidToken() run to completion on the stored blob, the token endpoint
\* answering a refresh request, if one is sent, with resp
getValidToken(blob, avail, t, resp) ==
    LET g == getValidToken_start(getTokens(blob, avail), t) IN
    IF g.kind = "await"
    THEN LET r == refreshAccessToken_resume(resp, blob, t, avail)
         IN  getValidToken_resume([kind |-> r.kind, ret |-> r.ret])
    ELSE [kind |-> g.kind, ret |-> g.ret]

\* isAuthenticated() run to completion in the same way
isAuthenticatedRun(blob, avail, t, resp) == isAuthenticated(getValidToken(blob, avail, t, resp))

Ops == {"getValidToken", "isAuthenticated"}
Settle(op, g) == IF op = "isAuthenticated" THEN isAuthenticated(g) ELSE g
Settled(op, g) == [Did(op) EXCEPT !.settled = IF g.kind = "throw" THEN "threw" ELSE "returned",
                                  !.ret = g.ret]

\* a caller invokes getValidToken() or isAuthenticated(): the call settles at
\* once or waits for the answer to its refresh request
call(c, op) ==
    LET view == getTokens(tokens, encAvail)
        g    == getValidToken_start(view, now)
        saw  == IF tokens.present THEN view.kind ELSE "absent"
    IN
    /\ FirstIdle(calls, c)
    /\ IF g.kind = "await"
       THEN /\ calls' = [calls EXCEPT ![c] = [pc |-> "awaitRefresh", op |-> op, rt |-> g.rt]]
            /\ last' = [Did("call") EXCEPT !.sent = TRUE, !.found = saw]
       ELSE /\ calls' = calls
            /\ last' = [Settled(op, Settle(op, [kind |-> g.kind, ret |-> g.ret]))
                            EXCEPT !.found = saw]
    /\ UNCHANGED <<now, ticks, encAvail, storeVars, callbackServer, servers, flows, reqs,
                   verified, gitRemote>>

\* the token endpoint answers a refresh request
refreshResponse(c, resp) ==
    LET r == refreshAccessToken_resume(resp, tokens, now, encAvail)
        g == getValidToken_resume([kind |-> r.kind, ret |-> r.ret])
    IN
    /\ calls[c].pc = "awaitRefresh"
    /\ tokens' = r.tokens
    /\ calls' = [calls EXCEPT ![c] = IdleCall]
    /\ last' = [Settled(calls[c].op, Settle(calls[c].op, g))
                    EXCEPT !.sent = TRUE, !.resp = resp.kind, !.found = "record"]
    /\ UNCHANGED <<now, ticks, encAvail, oauthState, pkceVerifier, profile, callbackServer,
                   servers, flows, reqs, verified, gitRemote>>

\* logout(): stopCallbackServer(), then storage.clearAllUserData()
logout ==
    LET st == stopCallbackServer(callbackServer, servers) IN
    /\ callbackServer' = st.callbackServer
    /\ servers' = st.servers
    /\ tokens' = NoTokens
    /\ profile' = Null
    /\ oauthState' = NoRec
    /\ pkceVerifier' = NoRec
    /\ last' = Did("logout")
    /\ UNCHANGED <<now, ticks, encAvail, flows, reqs, calls, verified, gitRemote>>

\* the environment: the OS keyring becomes (un)available; the stored string
\* stops decrypting (key rotated, file damaged)
setEncryptionAvailable(b) ==
    /\ encAvail # b
    /\ encAvail' = b
    /\ last' = Did("setEncryptionAvailable")
    /\ UNCHANGED <<now, ticks, storeVars, authVars, verified>>

corruptTokens ==
    /\ tokens.present /\ tokens.form = "enc" /\ tokens.intact
    /\ tokens' = [tokens EXCEPT !.intact = FALSE]
    /\ last' = Did("corruptTokens")
    /\ UNCHANGED <<now, ticks, encAvail, oauthState, pkceVerifier, profile, authVars,
                   verified>>

\* ----------------- callers of getValidToken (api/github.js, git-operations.js)
\* GitHubAPI.request and GitOperations.setupGitCredentials are calls too: pc
\* "awaitToken" is the refresh inside their getValidToken, "awaitApi" the
\* request sent to api.github.com, "awaitRetry" the refresh after a 401
ApiOps   == {"request", "setupGitCredentials"}
Statuses == {200, 401, 429, 500}

Waiting(pc, op, rt) == [pc |-> pc, op |-> op, rt |-> rt]

\* what the caller does once getValidToken has resolved to token:
\* setupGitCredentials rewrites the (https) remote URL with the token in it and
\* swallows 'Not authenticated'; createClient throws it, or request sends
Proceed(c, op, token) ==
    IF op = "setupGitCredentials"
    THEN /\ gitRemote' = IF Truthy(token) THEN token ELSE gitRemote
         /\ calls' = [calls EXCEPT ![c] = IdleCall]
         /\ last' = Settled(op, [kind |-> "return", ret |-> Undefined])
    ELSE /\ gitRemote' = gitRemote
         /\ IF Truthy(token)
            THEN /\ calls' = [calls EXCEPT ![c] = Waiting("awaitApi", op, Undefined)]
                 /\ last' = Did("call")
            ELSE /\ calls' = [calls EXCEPT ![c] = IdleCall]
                 /\ last' = Settled(op, [kind |-> "throw", ret |-> Undefined])

\* request() / setupGitCredentials() up to their first pending await
Enter(c, op, blob) ==
    LET g == getValidToken_start(getTokens(blob, encAvail), now) IN
    IF g.kind = "await"
    THEN /\ calls' = [calls EXCEPT ![c] = Waiting("awaitToken", op, g.rt)]
         /\ last' = [Did("call") EXCEPT !.sent = TRUE]
         /\ gitRemote' = gitRemote
    ELSE Proceed(c, op, g.ret)

apiStart(c, op) ==
    /\ FirstIdle(calls, c)
    /\ Enter(c, op, tokens)
    /\ UNCHANGED <<now, ticks, encAvail, storeVars, callbackServer, servers, flows, reqs,
                   verified>>

\* the token endpoint answers the refresh sent by getValidToken
tokenResponse(c, resp) ==
    LET r == refreshAccessToken_resume(resp, tokens, now, encAvail)
        g == getValidToken_resume([kind |-> r.kind, ret |-> r.ret])
    IN
    /\ calls[c].pc = "awaitToken"
    /\ tokens' = r.tokens
    /\ Proceed(c, calls[c].op, g.ret)
    /\ UNCHANGED <<now, ticks, encAvail, oauthState, pkceVerifier, profile, callbackServer,
                   servers, flows, reqs, verified>>

\* api.github.com answers: 200 returns response.data, 429 and any other error
\* are thrown, 401 calls refreshAccessToken
apiResponse(c, status) ==
    LET r == refreshAccessToken_start(getTokens(tokens, encAvail)) IN
    /\ calls[c].pc = "awaitApi"
    /\ IF status = 401 /\ r.kind = "await"
       THEN /\ calls' = [calls EXCEPT ![c] = Waiting("awaitRetry", calls[c].op, r.rt)]
            /\ last' = [Did("call") EXCEPT !.sent = TRUE]
       ELSE /\ calls' = [calls EXCEPT ![c] = IdleCall]
            /\ last' = Settled(calls[c].op,
                               [kind |-> IF status = 200 THEN "return" ELSE "throw",
                                ret  |-> Undefined])
    /\ UNCHANGED <<now, ticks, encAvail, storeVars, callbackServer, servers, flows, reqs,
                   verified, gitRemote>>

\* the token endpoint answers the refresh sent after a 401: a failure throws
\* 'Authentication failed', otherwise `return this.request(...)` starts over
retryResponse(c, resp) ==
    LET r == refreshAccessToken_resume(resp, tokens, now, encAvail) IN
    /\ calls[c].pc = "awaitRetry"
    /\ tokens' = r.tokens
    /\ IF r.kind = "throw"
       THEN /\ calls' = [calls EXCEPT ![c] = IdleCall]
            /\ last' = [Settled(calls[c].op, [kind |-> "throw", ret |-> Undefined])
                            EXCEPT !.sent = TRUE, !.resp = resp.kind]
            /\ gitRemote' = gitRemote
       ELSE Enter(c, calls[c].op, r.tokens)
    /\ UNCHANGED <<now, ticks, encAvail, oauthState, pkceVerifier, profile, callbackServer,
                   servers, flows, reqs, verified>>

\* ---------------------------------------------------------- specifications
InitAuth ==
    /\ callbackServer = 0
    /\ servers = [h \in Flows |-> "none"]
    /\ flows = [f \in Flows |-> IdleFlow]
    /\ reqs = EmptyBag
    /\ calls = [c \in Calls |-> IdleCall]
    /\ last = Did("none")
    /\ verified = NoneVerified
    /\ gitRemote = Undefined

\* a first start of the application: nothing is persisted yet
Init ==
    /\ now = 0
    /\ ticks = 0
    /\ encAvail = TRUE
    /\ oauthState = NoRec
    /\ pkceVerifier = NoRec
    /\ tokens = NoTokens
    /\ profile = Null
    /\ InitAuth

\* the authorization flow: startOAuthFlow, the /callback handler, logout
Next ==
    \/ userWaits
    \/ \E f \in Flows, bound \in BOOLEAN : startOAuthFlow(f, bound)
    \/ \E f \in Flows, ok \in BOOLEAN : openExternal(f, ok)
    \/ \E h \in Flows, q \in Queries : callback(h, q)
    \/ \E req \in BagToSet(reqs), resp \in ExchangeResponses : exchangeResponse(req, resp)
    \/ \E req \in BagToSet(reqs), ok \in BOOLEAN : profileResponse(req, ok)
    \/ \E req \in BagToSet(reqs) : successTimer(req)
    \/ logout

Spec == Init /\ [][Next]_vars

\* a later start of the application: 'github.tokens' holds whatever an earlier
\* session's storeTokens left there (or nothing)
PersistedTokens ==
    {NoTokens} \cup
    {storeTokens(resp.access_token, resp.refresh_token, OrDefault(resp.expires_in), 0, av) :
        resp \in OkResponses \cup {BadResponse("malformed")}, av \in BOOLEAN}

InitTokens ==
    /\ now = 0
    /\ ticks = 0
    /\ encAvail \in BOOLEAN
    /\ oauthState = NoRec
    /\ pkceVerifier = NoRec
    /\ tokens \in PersistedTokens
    /\ profile = Null
    /\ InitAuth

\* the token lifecycle: getValidToken / isAuthenticated with refresh, logout
NextTokens ==
    \/ \E d \in TokenTickSteps : Tick(d, MaxTicks)
    \/ \E c \in Calls, op \in Ops : call(c, op)
    \/ \E c \in Calls, resp \in TokenResponses : refreshResponse(c, resp)
    \/ logout
    \/ \E b \in BOOLEAN : setEncryptionAvailable(b)
    \/ corruptTokens

SpecTokens == InitTokens /\ [][NextTokens]_vars

\* storeTokens and isTokenExpired of SecureStorage, called directly
S_storeTokens(a, r, e) ==
    /\ tokens' = storeTokens(a, r, e, now, encAvail)
    /\ last' = Did("storeTokens")
    /\ UNCHANGED <<now, ticks, encAvail, oauthState, pkceVerifier, profile, authVars, verified>>

S_isTokenExpired ==
    /\ last' = [Did("isTokenExpired") EXCEPT !.ok = isTokenExpired(getTokens(tokens, encAvail), now)]
    /\ UNCHANGED <<now, ticks, encAvail, storeVars, authVars, verified>>

InitExpiry ==
    /\ now = 0
    /\ ticks = 0
    /\ encAvail \in BOOLEAN
    /\ oauthState = NoRec
    /\ pkceVerifier = NoRec
    /\ tokens = NoTokens
    /\ profile = Null
    /\ InitAuth

NextExpiry ==
    \/ \E d \in ExpiryTickSteps : Tick(d, MaxTicks)
    \/ \E a \in AccessTokens, r \in RefreshTokens \cup {Undefined}, e \in ExpiresIns :
            S_storeTokens(a, r, e)
    \/ S_isTokenExpired

SpecExpiry == InitExpiry /\ [][NextExpiry]_vars

\* the callers of getValidToken: API requests and git credential setup
NextApi ==
    \/ \E d \in TokenTickSteps : Tick(d, MaxTicks)
    \/ \E c \in Calls, op \in ApiOps : apiStart(c, op)
    \/ \E c \in Calls, resp \in TokenResponses : tokenResponse(c, resp)
    \/ \E c \in Calls, status \in Statuses : apiResponse(c, status)
    \/ \E c \in Calls, resp \in TokenResponses : retryResponse(c, resp)

SpecApi == InitTokens /\ [][NextApi]_vars

\* every request sent, by whichever call, is answered or fails
SpecApiLive ==
    /\ SpecApi
    /\ \A c \in Calls :
          /\ WF_vars(\E resp \in TokenResponses : tokenResponse(c, resp))
          /\ WF_vars(\E status \in Statuses : apiResponse(c, status))
          /\ WF_vars(\E resp \in TokenResponses : retryResponse(c, resp))

\* the pending-flow records of SecureStorage, called directly
NextStorage ==
    \/ \E d \in StorageTickSteps : Tick(d, MaxTicks)
    \/ \E f \in Flows : S_storeOAuthState(f)
    \/ \E s \in {generateState(f) : f \in Flows} \cup {WrongState} : S_verifyOAuthState(s)
    \/ \E f \in Flows : S_storePKCEVerifier(f)
    \/ S_getPKCEVerifier
    \/ S_clearAllUserData

SpecStorage == Init /\ [][NextStorage]_vars

\* ------------------------------------------------------------ properties
\* C1: between two storeOAuthState calls, verifyOAuthState returns true at most
\* once for a state value; every later call with that value returns false.
C1_StateSingleUse == verified.n <= 1

\* a replay of the accepted state has just been rejected
C1_Witness ==
    /\ verified.n = 1
    /\ last.op = "verifyOAuthState"
    /\ last.val = verified.val
    /\ ~last.ok

\* C2: a callback whose state equals the stored state but arrives more than 10
\* minutes after the state was stored is rejected by the listening server:
\* onError is called, no token exchange is sent, no TokenRecord is written.
C2_Step(h) ==
    callback(h, [err |-> FALSE, desc |-> FALSE, state |-> oauthState.value])
    => ( /\ last'.cb = "onError"
         /\ flows'[h].notified \in {"error", "twice"}
         /\ flows'[h].notified # flows[h].notified \/ flows[h].notified = "twice"
         /\ reqs' = reqs
         /\ tokens' = tokens )

C2_StaleCallbackRejected ==
    [][(oauthState.present /\ now - oauthState.createdAt > 10 * 60 * 1000)
            => \A h \in Flows : C2_Step(h)]_vars

\* a request carrying the issued state has just been turned away for its age
C2_Witness ==
    /\ last.outcome = "stateExpired"
    /\ last.cb = "onError"
    /\ oauthState.present
    /\ now - oauthState.createdAt > 10 * 60 * 1000
    /\ reqs = EmptyBag
    /\ ~tokens.present

\* C3 (as claimed): after verifyOAuthState(candidate) called while a pending
\* flow is stored, neither the state record nor the verifier record remains,
\* whether or not the candidate matched and whether or not the flow had expired.
C3_DeletedInAllCases ==
    (last.op = "verifyOAuthState" /\ last.pre.present)
        => (~oauthState.present /\ ~pkceVerifier.present)

\* C4: getPKCEVerifier returns the stored verifier unless none is stored or the
\* stored one is older than 10 minutes, when it returns null; the record is
\* absent after every call, and a call that directly follows another returns null.
C4_ReturnAndDelete ==
    last.op = "getPKCEVerifier" =>
        /\ ~pkceVerifier.present
        /\ last.val = IF last.pre.present /\ now - last.pre.createdAt <= StateTTL
                      THEN last.pre.value ELSE NullValue

C4_SecondCallNull ==
    (last.op = "getPKCEVerifier" /\ last'.op = "getPKCEVerifier") => last'.val = NullValue

C4_ConsumeVerifier == [](C4_ReturnAndDelete) /\ [][C4_SecondCallNull]_vars

\* an expired verifier has just been asked for
C4_Witness ==
    /\ last.op = "getPKCEVerifier"
    /\ last.pre.present
    /\ now - last.pre.createdAt > StateTTL
    /\ last.val = NullValue

\* C5 (as claimed): when the stored record is expired and holds a refresh token
\* and the refresh response has an access_token but no refresh_token,
\* getValidToken returns the new access token and the stored record still
\* holds the old refresh token.
C5_Step(c, resp) ==
    LET view == getTokens(tokens, encAvail) IN
    ( /\ calls[c].op = "getValidToken"
      /\ resp.refresh_token = Undefined
      /\ view.kind = "record"
      /\ isTokenExpired(view, now)
      /\ Truthy(view.refreshToken)
      /\ refreshResponse(c, resp) )
    => ( /\ last'.ret = resp.access_token
         /\ getTokens(tokens', encAvail').refreshToken = view.refreshToken )

C5_RefreshKeepsRefreshToken ==
    [][\A c \in Calls, resp \in OkResponses : C5_Step(c, resp)]_vars

\* C6: getValidToken returns the stored access token, sending nothing, when
\* the record is unexpired; it posts a refresh when the record is expired and
\* has a refresh token, and returns the access token of a good answer; it
\* returns null only when there was neither an unexpired access token nor a
\* refresh token to send, or when the refresh was refused.
Usable(view, t) ==
    /\ view.kind = "record"
    /\ t < view.expiresAt
    /\ Truthy(view.accessToken)

Refreshable(view, t) ==
    /\ view.kind = "record"
    /\ t >= view.expiresAt
    /\ Truthy(view.refreshToken)

C6_Step(c) ==
    LET view == getTokens(tokens, encAvail) IN
    /\ call(c, "getValidToken") =>
        /\ Usable(view, now)
            => ( /\ last'.settled = "returned" /\ last'.ret = view.accessToken
                 /\ ~last'.sent /\ calls' = calls )
        /\ Refreshable(view, now)
            => ( /\ calls'[c].pc = "awaitRefresh" /\ calls'[c].rt = view.refreshToken
                 /\ last'.sent /\ last'.settled = "none" )
        /\ (last'.settled = "returned" /\ last'.ret = Null)
            => (~Usable(view, now) /\ ~Refreshable(view, now))
    /\ \A resp \in TokenResponses :
        (calls[c].op = "getValidToken" /\ refreshResponse(c, resp)) =>
            /\ resp.kind = "ok"
                => (last'.settled = "returned" /\ last'.ret = resp.access_token)
            /\ last'.ret = Null => resp.kind \in {"network", "error"}

C6_GetValidToken == [][\A c \in Calls : C6_Step(c)]_vars

\* a call found an expired record, refreshed it and returned the new token
C6_Witness ==
    /\ last.op = "getValidToken"
    /\ last.settled = "returned"
    /\ last.sent
    /\ last.resp = "ok"
    /\ last.ret \in AccessTokens
    /\ getTokens(tokens, encAvail).accessToken = last.ret

\* C7: getValidToken returns null when the refresh fails (rejected request,
\* error body, or no refresh token to send), and no call ever throws.
C7_NoThrow ==
    /\ last.settled # "threw"
    /\ (last.op = "getValidToken" /\ last.resp \in {"network", "error"}) => last.ret = Null

C7_Step(c) ==
    LET view == getTokens(tokens, encAvail) IN
    ( /\ ~Truthy(getValidAccessToken(view, now))
      /\ isTokenExpired(view, now)
      /\ ~Truthy(view.refreshToken)
      /\ call(c, "getValidToken") )
    => (last'.settled = "returned" /\ last'.ret = Null)

C7_RefreshFailureIsNull == [](C7_NoThrow) /\ [][\A c \in Calls : C7_Step(c)]_vars

\* a refresh request was rejected and the call returned null
C7_Witness ==
    /\ last.op = "getValidToken"
    /\ last.settled = "returned"
    /\ last.sent
    /\ last.resp = "network"
    /\ last.ret = Null

\* C8: with nothing stored under 'github.tokens', isAuthenticated returns
\* false and getValidToken returns null, and neither posts to the token endpoint.
C8_Step(c, op) ==
    (~tokens.present /\ call(c, op))
    => ( /\ last'.settled = "returned"
         /\ ~last'.sent
         /\ calls' = calls
         /\ last'.ret = IF op = "isAuthenticated" THEN "false" ELSE Null )

C8_NoRecordNoRequest == [][\A c \in Calls, op \in Ops : C8_Step(c, op)]_vars

\* isAuthenticated has answered a caller who had nothing stored
C8_Witness ==
    /\ last.op = "isAuthenticated"
    /\ last.found = "absent"
    /\ last.settled = "returned"
    /\ last.ret = "false"
    /\ ~last.sent
    /\ \A c \in Calls : calls[c].pc = "idle"

LoggedOut(blob, avail, t, p, st, pk, srv) ==
    /\ \A resp \in TokenResponses : isAuthenticatedRun(blob, avail, t, resp).ret = "false"
    /\ getUserProfile(p) = Null
    /\ ~st.present
    /\ ~pk.present
    /\ \A h \in Flows : srv[h] # "listening"

C10_LogoutClearsEverything ==
    [][logout => LoggedOut(tokens', encAvail', now', profile', oauthState',
                           pkceVerifier', servers')]_vars

\* C11 (as claimed, in the case it names): once the success page of the flow
\* of server h is rendered and the stop timer armed, a further GET /callback on
\* h invokes neither onSuccess nor onError and leaves oauth.state,
\* oauth.pkce.verifier, github.tokens and user.profile as they were.
Completed(h) == \E req \in BagToSet(reqs) : req.server = h /\ req.pc = "awaitTimer"

C11_Step(h, q) ==
    (Completed(h) /\ callback(h, q))
    => ( /\ flows' = flows
         /\ last'.cb = "none"
         /\ storeVars' = storeVars )

C11_LateRequestIgnored == [][\A h \in Flows, q \in Queries : C11_Step(h, q)]_vars

\* the flow specification with what the runtime is bound to do: a pending
\* openExternal settles, a pending HTTP request is answered or times out, an
\* armed timer fires
SpecLive ==
    /\ Spec
    /\ WF_vars(\E f \in Flows, ok \in BOOLEAN : openExternal(f, ok))
    /\ WF_vars(\E req \in BagToSet(reqs), resp \in ExchangeResponses : exchangeResponse(req, resp))
    /\ WF_vars(\E req \in BagToSet(reqs), ok \in BOOLEAN : profileResponse(req, ok))
    /\ WF_vars(\E req \in BagToSet(reqs) : successTimer(req))

\* C12 (as claimed): whenever a flow whose listener was bound has ended (its
\* caller was told so through onSuccess or onError), its listener is eventually
\* no longer bound to port 3000.
Ended(h) == flows[h].notified # "none"

C12_PortReleased ==
    \A h \in Flows : [](Ended(h) => <>(servers[h] # "listening"))

\* C13 (as claimed): a startOAuthFlow issued while an earlier listener is still
\* listening either replaces the pending flow (the new flow is not reported as
\* failed, goes on to open its authorization URL, and its state and verifier
\* are the stored ones) or is rejected (onError) with the stored state, the
\* stored verifier and the listener handle left as they were.
Replaces(f) ==
    /\ last'.cb = "none"
    /\ flows'[f].pc = "awaitOpen"
    /\ oauthState'.present /\ oauthState'.value = generateState(f)
    /\ pkceVerifier'.present /\ pkceVerifier'.value = generatePKCE(f).verifier

Rejected(f) ==
    /\ last'.cb = "onError"
    /\ flows'[f].notified = "error"
    /\ oauthState' = oauthState
    /\ pkceVerifier' = pkceVerifier
    /\ callbackServer' = callbackServer

C13_Step(f, bound) ==
    ((\E h \in Flows : servers[h] = "listening") /\ startOAuthFlow(f, bound))
    => (Replaces(f) \/ Rejected(f))

C13_SecondStartReplacesOrRejects ==
    [][\A f \in Flows, bound \in BOOLEAN : C13_Step(f, bound)]_vars

\* C14: a callback without provider error whose state is not the stored one
\* (or arrives when none is stored) calls onError with the invalid-state
\* error, starts no token exchange and writes no TokenRecord; if nothing was
\* stored under github.tokens before, getValidToken still returns null.
C14_Step(h, q) ==
    ( /\ ~q.err
      /\ ~oauthState.present \/ q.state # oauthState.value
      /\ callback(h, q) )
    => ( /\ last'.cb = "onError"
         /\ last'.outcome = "stateMismatch"
         /\ flows'[h].notified # "success" \/ flows[h].notified = "success"
         /\ reqs' = reqs
         /\ tokens' = tokens
         /\ ~tokens.present =>
                \A resp \in TokenResponses :
                    getValidToken(tokens', encAvail', now', resp).ret = Null )

C14_StateMismatchRejected ==
    [][\A h \in Flows : servers[h] = "listening" => \A q \in Queries : C14_Step(h, q)]_vars

\* a request with a wrong state has just been turned away, nothing is stored
C14_Witness ==
    /\ last.outcome = "stateMismatch"
    /\ last.cb = "onError"
    /\ oauthState.present
    /\ ~tokens.present
    /\ \A resp \in TokenResponses : getValidToken(tokens, encAvail, now, resp).ret = Null

\* C15 (as claimed): a callback carrying the provider error parameter E, with
\* or without an error_description, calls onError with a message that contains
\* E, does not call onSuccess, and writes no TokenRecord.
Contains(m, e) ==
    \E i \in 0..(Len(m) - Len(e)) : \A j \in 1..Len(e) : m[i + j] = e[j]

C15_Step(h, q) ==
    (q.err /\ callback(h, q))
    => ( /\ last'.cb = "onError"
         /\ Contains(last'.msg, ErrorParam)
         /\ tokens' = tokens )

C15_ProviderErrorReported == [][\A h \in Flows, q \in Queries : C15_Step(h, q)]_vars

\* C16: the happy path. When the only callback handler there is has been
\* answered by the exchange with an access token, has then had its profile
\* request answered, and its timer fires next, with no callback delivered to
\* the flow before, then onSuccess is invoked (once: the flow has now been
\* notified of success and of nothing else), and at that moment github.tokens
\* holds that access token, user.profile holds the fetched profile, and
\* getValidToken returns that access token.
C16_Step(req) ==
    ( /\ last.outcome = "profileStored"
      /\ Truthy(req.access)
      /\ flows[req.server].notified = "none"
      /\ successTimer(req) )
    => ( /\ last'.cb = "onSuccess"
         /\ flows'[req.server].notified = "success"
         /\ tokens'.present
         /\ getTokens(tokens', encAvail').accessToken = req.access
         /\ getUserProfile(profile') = UserLogin
         /\ \A resp \in TokenResponses :
                getValidToken(tokens', encAvail', now', resp).ret = req.access )

C16_HappyPath == [][\A req \in BagToSet(reqs) : C16_Step(req)]_vars

\* onSuccess has just been invoked at the end of an undisturbed flow
C16_Witness ==
    /\ last.cb = "onSuccess"
    /\ last.ret \in AccessTokens
    /\ \E h \in Flows : flows[h].notified = "success" /\ servers[h] = "closed"
    /\ getUserProfile(profile) = UserLogin
    /\ \A resp \in TokenResponses : getValidToken(tokens, encAvail, now, resp).ret = last.ret

\* C17: the handler checks in order. A callback with a provider error is
\* turned away before the state is looked at (the stored state and verifier
\* stay); a token exchange is posted only by a callback without provider
\* error whose state is the stored one and less than 10 minutes old, and that
\* state is consumed by then; github.tokens is never written by the step that
\* receives the callback, only by the step in which a posted exchange is
\* answered.
C17_Step(h, q) ==
    callback(h, q) =>
        /\ q.err => (oauthState' = oauthState /\ pkceVerifier' = pkceVerifier /\ reqs' = reqs)
        /\ reqs' # reqs =>
              /\ ~q.err
              /\ oauthState.present
              /\ q.state = oauthState.value
              /\ now - oauthState.createdAt < 10 * 60 * 1000
              /\ ~oauthState'.present
        /\ tokens' = tokens

C17_Persist ==
    (tokens'.present /\ tokens' # tokens)
    => \E req \in BagToSet(reqs) :
          req.pc = "awaitExchange" /\ CopiesIn(req, reqs') < CopiesIn(req, reqs)

C17_ChecksInOrder ==
    [][ /\ C17_Persist
        /\ \A h \in Flows : servers[h] = "listening" => \A q \in Queries : C17_Step(h, q) ]_vars

\* an exchange is in flight for a verified state; nothing is persisted yet
C17_Witness ==
    /\ \E req \in BagToSet(reqs) : req.pc = "awaitExchange" /\ req.verifier # NullValue
    /\ ~oauthState.present
    /\ ~pkceVerifier.present
    /\ ~tokens.present

\* C18 (as claimed): when the token endpoint answers the initial exchange
\* with a body that has neither access_token nor error, nothing is written
\* under github.tokens.
C18_Step(req) ==
    exchangeResponse(req, BadResponse("malformed")) => tokens' = tokens

C18_MalformedExchangeNotPersisted == [][\A req \in BagToSet(reqs) : C18_Step(req)]_vars

\* C19 (as claimed): when port 3000 cannot be bound, startOAuthFlow does not go
\* on to open the authorization URL, and the failure is not delivered through
\* onError, the callback that reports authentication failures.
C19_Step(f) ==
    startOAuthFlow(f, FALSE)
    => ( /\ flows'[f].pc # "awaitOpen"
         /\ last'.cb # "onError"
         /\ flows'[f].notified = "none" )

C19_BindFailureDistinct == [][\A f \in Flows : C19_Step(f)]_vars

\* C20: with the record stored by storeTokens(a, r, 3600) at time T and the
\* OS encryption setting unchanged since, isTokenExpired answers false at
\* every time from T to T + 3599 s and true at every time from T + 3601 s.
C20_ExpiryCorrect ==
    (last.op = "isTokenExpired" /\ tokens.present) =>
        /\ (tokens.storedAt <= now /\ now <= tokens.storedAt + 3599 * 1000) => ~last.ok
        /\ now >= tokens.storedAt + 3601 * 1000 => last.ok

\* isTokenExpired has just answered true 3601 s after the record was stored
C20_Witness ==
    /\ last.op = "isTokenExpired"
    /\ tokens.present
    /\ now = tokens.storedAt + 3601 * 1000
    /\ last.ok

\* token endpoint answers that differ in expires_in only: absent, zero, one hour
LifetimeResponses ==
    [kind : {"ok"}, access_token : {"A1"}, refresh_token : RefreshTokens,
     expires_in : {NoNumber, 0} \cup ExpiresIns]

\* both writers of github.tokens, the token endpoint answering with any lifetime
NextLifetime ==
    \/ \E d \in TokenTickSteps : Tick(d, MaxTicks)
    \/ \E f \in Flows : startOAuthFlow(f, TRUE)
    \/ \E h \in Flows, q \in Queries : callback(h, q)
    \/ \E req \in BagToSet(reqs), resp \in LifetimeResponses : exchangeResponse(req, resp)
    \/ \E req \in BagToSet(reqs), ok \in BOOLEAN : profileResponse(req, ok)
    \/ \E req \in BagToSet(reqs) : successTimer(req)
    \/ \E c \in Calls : call(c, "getValidToken")
    \/ \E c \in Calls, resp \in LifetimeResponses : refreshResponse(c, resp)

SpecLifetime == Init /\ [][NextLifetime]_vars

\* C21 (as claimed): every record written under github.tokens, by the callback
\* handler or by a refresh, has expiresAt = storedAt + expires_in seconds for
\* the expires_in of the response, whatever its value; the 8 hours are used
\* only when the response has no expires_in.
C21_Lifetime(resp) == IF resp.expires_in = NoNumber THEN 8 * 60 * 60 ELSE resp.expires_in

C21_Derived(resp) ==
    /\ tokens'.present
    /\ tokens'.expiresAt = tokens'.storedAt + C21_Lifetime(resp) * 1000

C21_ExpiresAtFromProvider ==
    [][\A resp \in LifetimeResponses :
          /\ \A req \in BagToSet(reqs) : exchangeResponse(req, resp) => C21_Derived(resp)
          /\ \A c \in Calls : refreshResponse(c, resp) => C21_Derived(resp)]_vars

\* C22: a refresh replaces the record as a whole. The step in which a refresh
\* request is answered with an access token leaves under github.tokens a
\* record that reads back with the access token, the refresh token (null when
\* there is none) and the lifetime of that one answer, also while another
\* refresh is in flight; and nothing but such a step, a logout or damage to the
\* stored string changes what is stored, so what getTokens returns is always
\* the last write.
C22_Step(c, resp) ==
    (resp.kind = "ok" /\ refreshResponse(c, resp))
    => ( /\ getTokens(tokens', encAvail').kind = "record"
         /\ getTokens(tokens', encAvail').accessToken = resp.access_token
         /\ getTokens(tokens', encAvail').refreshToken
                = (IF resp.refresh_token = Undefined THEN Null ELSE resp.refresh_token)
         /\ getTokens(tokens', encAvail').expiresAt
                = now + (IF resp.expires_in = NoNumber THEN 8 * 60 * 60
                         ELSE resp.expires_in) * 1000 )

C22_OnlyWrites ==
    tokens' # tokens
    => \/ \E c \in Calls, resp \in TokenResponses :
              resp.kind \in {"ok", "malformed"} /\ refreshResponse(c, resp)
       \/ logout
       \/ corruptTokens

C22_RefreshReplacesRecord ==
    [][ /\ C22_OnlyWrites
        /\ \A c \in Calls : calls[c].pc = "awaitRefresh" =>
                \A resp \in OkResponses : C22_Step(c, resp) ]_vars

\* of two refreshes in flight at once the first has just been answered: the
\* record is that answer's, the second call is still waiting
C22_Witness ==
    /\ calls[1].pc = "idle"
    /\ calls[2].pc = "awaitRefresh"
    /\ last.op = "getValidToken"
    /\ last.resp = "ok"
    /\ getTokens(tokens, encAvail).kind = "record"
    /\ getTokens(tokens, encAvail).accessToken = last.ret

\* C23 (as claimed): when the string stored under github.tokens cannot be
\* decrypted (it is damaged or its key is gone, or it was written with OS
\* encryption and OS encryption is not available now), getTokens returns null
\* and getValidToken returns null. Stated of a getValidToken call that has just
\* read such a string.
C23_Undecryptable ==
    /\ tokens.present
    /\ tokens.form = "enc"
    /\ ~tokens.intact \/ ~encAvail

C23_DecryptFailureIsNull ==
    (C23_Undecryptable /\ last.op = "getValidToken" /\ ~last.sent)
    => ( /\ last.found = "null"
         /\ getTokens(tokens, encAvail).kind = "null"
         /\ last.ret = Null )

\* C24: PKCE binding. A callback that makes the handler post a token exchange
\* carries the state of a flow that startOAuthFlow has started, and the
\* code_verifier posted is the verifier generated in that same startOAuthFlow
\* call (the one whose challenge went into the URL with that state); with no
\* verifier stored, or one older than 10 minutes, the handler reports an error
\* and posts nothing. Every exchange in flight carries such a verifier.
C24_Posted(h, f) == Handler("awaitExchange", h, generatePKCE(f).verifier, Undefined)

C24_Step(h, q) ==
    (~q.err /\ callback(h, q))
    => ( /\ reqs' # reqs =>
              \E f \in Flows :
                  /\ q.state = generateState(f)
                  /\ flows[f].pc # "idle"
                  /\ CopiesIn(C24_Posted(h, f), reqs') = CopiesIn(C24_Posted(h, f), reqs) + 1
         /\ (~pkceVerifier.present \/ now - pkceVerifier.createdAt > 10 * 60 * 1000)
              => (reqs' = reqs /\ last'.cb = "onError") )

C24_InFlight ==
    \A req \in BagToSet(reqs) :
        req.pc = "awaitExchange" =>
            \E f \in Flows : flows[f].pc # "idle" /\ req.verifier = generatePKCE(f).verifier

C24_VerifierBinding ==
    /\ [](C24_InFlight)
    /\ [][\A h \in Flows : servers[h] = "listening" => \A q \in Queries : C24_Step(h, q)]_vars

\* the browser was sent to the authorization URL of a flow and the exchange
\* for that flow is in flight with the flow's own verifier
C24_Witness ==
    \E f \in Flows :
        /\ flows[f].pc = "done"
        /\ flows[f].notified = "none"
        /\ BagIn(C24_Posted(f, f), reqs)
        /\ ~pkceVerifier.present

\* C25 (as claimed): whenever no API or git operation is in progress, no copy
\* of an access token exists outside the token store: the remote URL of the
\* repository holds none.
C25_NoTokenOutsideStore ==
    (\A c \in Calls : calls[c].pc = "idle") => gitRemote \notin AccessTokens

\* flows in which the listener binds and the browser opens, so that every
\* onSuccess and onError comes from a /callback handler
NextCallbacks ==
    \/ userWaits
    \/ \E f \in Flows : startOAuthFlow(f, TRUE)
    \/ \E f \in Flows : openExternal(f, TRUE)
    \/ \E h \in Flows, q \in Queries : callback(h, q)
    \/ \E req \in BagToSet(reqs), resp \in ExchangeResponses : exchangeResponse(req, resp)
    \/ \E req \in BagToSet(reqs), ok \in BOOLEAN : profileResponse(req, ok)
    \/ \E req \in BagToSet(reqs) : successTimer(req)

SpecCallbacks == Init /\ [][NextCallbacks]_vars

\* C26 (as claimed): under every interleaving of callback requests no flow has
\* its callbacks invoked twice, be it onSuccess and onError or one of them
\* twice.
C26_NotifiedOnce == \A f \in Flows : flows[f].notified # "twice"

\* C27 (as claimed): a flow that reports failure has persisted no TokenRecord.
\* When no flow has reported success, the only handler there is has its
\* profile request fail and onError is called, nothing is stored under
\* github.tokens and isAuthenticated answers false.
C27_Step(req) ==
    ( /\ \A f \in Flows : flows[f].notified # "success"
      /\ BagCardinality(reqs) = 1
      /\ profileResponse(req, FALSE) )
    => ( /\ last'.cb = "onError"
         /\ ~tokens'.present
         /\ \A resp \in TokenResponses :
                isAuthenticatedRun(tokens', encAvail', now', resp).ret = "false" )

C27_FailedFlowPersistsNothing == [][\A req \in BagToSet(reqs) : C27_Step(req)]_vars

\* C28 (as claimed): a logout during a handler's await stays effective. When
\* the step right after a logout is a suspended handler resuming (its token
\* exchange or its profile request is answered), that step writes neither
\* github.tokens nor user.profile, and isAuthenticated still answers false.
C28_StillLoggedOut ==
    /\ tokens' = tokens
    /\ profile' = profile
    /\ \A resp \in TokenResponses :
           isAuthenticatedRun(tokens', encAvail', now', resp).ret = "false"

C28_Step(req) ==
    /\ \A resp \in ExchangeResponses :
           (resp.kind = "ok" /\ exchangeResponse(req, resp)) => C28_StillLoggedOut
    /\ \A ok \in BOOLEAN : profileResponse(req, ok) => C28_StillLoggedOut

C28_LogoutStaysEffective ==
    [][last.op = "logout" => \A req \in BagToSet(reqs) : C28_Step(req)]_vars

\* C29: a refresh that fails writes nothing. The step in which a refresh
\* request is rejected or answered with an error body, and the call that finds
\* an expired record without a refresh token (and so posts nothing), leave
\* github.tokens and user.profile as they were.
C29_Step(c) ==
    LET view == getTokens(tokens, encAvail) IN
    /\ \A resp \in TokenResponses :
           (resp.kind \in {"network", "error"} /\ refreshResponse(c, resp))
           => (tokens' = tokens /\ profile' = profile)
    /\ \A op \in Ops :
           (isTokenExpired(view, now) /\ ~Truthy(view.refreshToken) /\ call(c, op))
           => (tokens' = tokens /\ profile' = profile /\ calls' = calls)

C29_FailedRefreshWritesNothing == [][\A c \in Calls : C29_Step(c)]_vars

\* a refresh was answered with an error body and the expired record, with its
\* refresh token, is still the stored one
C29_Witness ==
    /\ last.op = "getValidToken"
    /\ last.resp = "error"
    /\ last.ret = Null
    /\ getTokens(tokens, encAvail).kind = "record"
    /\ Truthy(getTokens(tokens, encAvail).refreshToken)
    /\ isTokenExpired(getTokens(tokens, encAvail), now)

\* C30 (as claimed): every GitHubAPI.request ends, with a result or an error,
\* whatever the API and the token endpoint answer.
C30_RequestTerminates ==
    \A c \in Calls : [](calls[c].op = "request" => <>(calls[c].pc = "idle"))
====
